---- MODULE Spec2Model ----
(***************************************************************************)
(* Model of the mouse-skip-detector component (src/src/App.tsx).           *)
(*                                                                         *)
(* The React state (runState, countdown, samples, skipEvents, report,      *)
(* isReportOpen) holds the result of every state update made so far.  The  *)
(* handlers are closures created by a render: they read runState, samples, *)
(* skipEvents and stats as of the last committed render, kept in           *)
(* `rendered`.  Updates made in a click handler are flushed before the     *)
(* handler's event ends; updates made by pointer-move handlers, by the     *)
(* countdown timer and by the countdown effect are rendered later, by      *)
(* Render.  lastPoint is a ref: it is read and written in place.           *)
(*                                                                         *)
(* Numbers: timestamps are whole milliseconds; the pointer positions are   *)
(* drawn from Points, whose pairwise distances are whole numbers, so that  *)
(* Math.hypot is exact; every other real-valued quantity is an exact       *)
(* fraction [num, den] in lowest terms.                                    *)
(***************************************************************************)
EXTENDS Integers, Sequences, FiniteSets, TLC

VARIABLES
    runState,       \* useState 'idle' | 'countdown' | 'capturing'
    countdown,      \* useState(COUNTDOWN_SECONDS)
    samples,        \* useState<Sample[]>: the segment log
    skipEvents,     \* useState<SkipEvent[]>: the skip-event log, newest first
    report,         \* useState<SessionReport | null>
    isReportOpen,   \* useState(false)
    lastPoint,      \* lastPointRef.current
    rendered,       \* the values the handlers of the last render closed over
    timer,          \* TRUE while the countdown effect's setTimeout is pending
    now,            \* the clock read by performance.now()
    lastEvent       \* the handler that ran last and what it did

vars == <<runState, countdown, samples, skipEvents, report, isReportOpen,
          lastPoint, rendered, timer, now, lastEvent>>

\* ------------------------------------------------------------------ bounds

\* The clock stops advancing at MaxTime.
MaxTime == 3


\* The time at which the long captures are observed.
LongEnd == 1200

\* The time at which the baseline of uniform motion ends.
BaselineEnd == 3000

\* The number of segments of the baseline, and how many may follow it.
BaselineLen == 260
MaxExtra == 2

\* The number of segments of the stream of uniform motion.
StreamLen == 100

\* ---------------------------------------------------------------- constants

SAMPLE_LIMIT == 12000
RECENT_SKIPS_LIMIT == 8
COUNTDOWN_SECONDS == 3
\* samples.slice(-250)
WINDOW == 250

Null == [null |-> TRUE]

\* Pointer positions (x, y) relative to the capture stage.
Points == { [x |-> 0, y |-> 0], [x |-> 3, y |-> 4], [x |-> 30, y |-> 40] }

\* ----------------------------------------------------------------- numbers

Abs(a) == IF a < 0 THEN -a ELSE a

RECURSIVE GCD(_, _)
GCD(a, b) == IF b = 0 THEN a ELSE GCD(b, a % b)

\* The fraction n/d (d > 0) in lowest terms.
Frac(n, d) == LET g == GCD(Abs(n), d) IN [num |-> n \div g, den |-> d \div g]

Zero == [num |-> 0, den |-> 1]
\* 0/0 in floating point.
NaN == [num |-> 0, den |-> 0]

RAdd(a, b) == Frac(a.num * b.den + b.num * a.den, a.den * b.den)
RSub(a, b) == Frac(a.num * b.den - b.num * a.den, a.den * b.den)
RMulInt(a, k) == Frac(a.num * k, a.den)
RDivInt(a, k) == Frac(a.num, a.den * k)
RLeq(a, b) == a.num * b.den <= b.num * a.den
RLess(a, b) == a.num * b.den < b.num * a.den
RMax(a, b) == IF RLess(a, b) THEN b ELSE a
\* Math.round: the nearest integer, a half rounding up.
Round(a) == (2 * a.num + a.den) \div (2 * a.den)

\* Math.hypot(dx, dy), on differences whose hypotenuse is a whole number.
Hypot(dx, dy) == CHOOSE h \in 0..(Abs(dx) + Abs(dy)) : h * h = dx * dx + dy * dy

distanceBetween(a, b) == Hypot(b.x - a.x, b.y - a.y)

Range(s) == { s[i] : i \in DOMAIN s }

\* [...values].sort((a, b) => a - b)
SortAsc(values) ==
    [k \in 1..Len(values) |->
        CHOOSE v \in Range(values) :
            /\ Cardinality({i \in DOMAIN values : values[i] < v}) < k
            /\ k <= Cardinality({i \in DOMAIN values : values[i] <= v})]

percentile(values, p) ==
    IF Len(values) = 0 THEN 0
    ELSE LET sorted == SortAsc(values)
             length == Len(values)
             raw == (p * (length - 1)) \div 100
             lo == IF raw < 0 THEN 0 ELSE raw
             index == IF lo > length - 1 THEN length - 1 ELSE lo
         IN sorted[index + 1]

\* values.filter((value) => value > 0)
IsPositive(value) == value > 0
FilterPositive(values) == SelectSeq(values, IsPositive)

\* samples.slice(-250)
SliceLast(s, n) == IF Len(s) <= n THEN s ELSE SubSeq(s, Len(s) - n + 1, Len(s))

\* ------------------------------------------------------------- classifier

\* p95DistanceOf over the whole log: samples in place of samples.slice(-250).
p95DistanceWholeLog(log) ==
    percentile(FilterPositive([i \in DOMAIN log |-> log[i].distance]), 95)

\* p95Distance of handlePointerMove: over the positive distances of the window.
p95DistanceOf(log) ==
    LET recent == SliceLast(log, WINDOW)
    IN percentile(FilterPositive([i \in DOMAIN recent |-> recent[i].distance]), 95)

\* p95Dt of handlePointerMove: over the positive dt values of the window.
p95DtOf(log) ==
    LET recent == SliceLast(log, WINDOW)
    IN percentile(FilterPositive([i \in DOMAIN recent |-> recent[i].dt]), 95)

\* distanceOutlier with a factor of 0.22 for 2.2.
distanceOutlierTenth(p95Distance, distance, dt) ==
    p95Distance > 0 /\ 100 * distance > 22 * p95Distance /\ dt < 25

\* distanceOutlier with `dt < 5` for `dt < 25`.
distanceOutlierShortDt(p95Distance, distance, dt) ==
    p95Distance > 0 /\ 10 * distance > 22 * p95Distance /\ dt < 5

\* distanceOutlier without `dt < 25`.
distanceOutlierNoDtCap(p95Distance, distance, dt) ==
    p95Distance > 0 /\ 10 * distance > 22 * p95Distance

\* p95Distance > 0 && distance > p95Distance * 2.2 && dt < 25
distanceOutlier(p95Distance, distance, dt) ==
    p95Distance > 0 /\ 10 * distance > 22 * p95Distance /\ dt < 25

\* gapOutlier without its `p95Dt > 0` guard.
gapOutlierNoDtGuard(p95Distance, p95Dt, distance, dt) ==
    /\ 10 * dt > 18 * p95Dt
    /\ distance > 12
    /\ 10 * distance > 11 * p95Distance

\* p95Dt > 0 && dt > p95Dt * 1.8 && distance > Math.max(12, p95Distance * 1.1)
gapOutlier(p95Distance, p95Dt, distance, dt) ==
    /\ p95Dt > 0
    /\ 10 * dt > 18 * p95Dt
    /\ distance > 12
    /\ 10 * distance > 11 * p95Distance

\* The two outlier rules, for a segment of (distance, dt) against the samples
\* `log` the handler closed over.
Classify(log, distance, dt) ==
    LET p95Distance == p95DistanceOf(log)
        p95Dt == p95DtOf(log)
    IN [distanceOutlier |-> distanceOutlier(p95Distance, distance, dt),
        gapOutlier |-> gapOutlier(p95Distance, p95Dt, distance, dt)]

\* The Sample of the segment from the reference point `last` to p at time t,
\* given the outcome c of the outlier rules.
MakeSample(c, last, p, t) ==
    LET dt == t - last.t
        distance == distanceBetween(last, p)
    IN [x |-> p.x, y |-> p.y, t |-> t, distance |-> distance, dt |-> dt,
        speed |-> Frac(distance, dt),
        isSkip |-> c.distanceOutlier \/ c.gapOutlier]

\* The SkipEvent of a sample flagged as a skip.
MakeSkipEvent(c, s) ==
    [at |-> s.t, distance |-> s.distance, dt |-> s.dt, speed |-> s.speed,
     reason |-> IF c.distanceOutlier THEN "distance spike" ELSE "time gap + jump"]

\* AppendSample keeping the oldest SAMPLE_LIMIT segments: next.slice(0, SAMPLE_LIMIT).
AppendSampleKeepOldest(prev, sample) ==
    LET next == Append(prev, sample)
    IN IF Len(next) > SAMPLE_LIMIT THEN SubSeq(next, 1, SAMPLE_LIMIT) ELSE next

\* The updater given to setSamples.
AppendSample(prev, sample) ==
    LET next == Append(prev, sample)
    IN IF Len(next) > SAMPLE_LIMIT
       THEN SubSeq(next, Len(next) - SAMPLE_LIMIT + 1, Len(next))
       ELSE next

\* The updater given to setSkipEvents.
PrependSkip(prev, ev) ==
    LET next == <<ev>> \o prev
    IN SubSeq(next, 1, IF Len(next) < RECENT_SKIPS_LIMIT THEN Len(next) ELSE RECENT_SKIPS_LIMIT)

\* ------------------------------------------------------------- aggregator

\* values.reduce((acc, value) => acc + value, 0), over values[lo..hi]; the
\* sum is exact, so the order of the additions does not matter.
RECURSIVE SumIntRange(_, _, _)
SumIntRange(values, lo, hi) ==
    IF lo > hi THEN 0
    ELSE IF lo = hi THEN values[lo]
    ELSE LET mid == (lo + hi) \div 2
         IN SumIntRange(values, lo, mid) + SumIntRange(values, mid + 1, hi)

SumInt(values) == SumIntRange(values, 1, Len(values))

RECURSIVE SumFracRange(_, _, _)
SumFracRange(values, lo, hi) ==
    IF lo > hi THEN Zero
    ELSE IF lo = hi THEN values[lo]
    ELSE LET mid == (lo + hi) \div 2
         IN RAdd(SumFracRange(values, lo, mid), SumFracRange(values, mid + 1, hi))

SumFrac(values) == SumFracRange(values, 1, Len(values))

\* Math.max(...values), of at least one value.
RECURSIVE MaxFracRange(_, _, _)
MaxFracRange(values, lo, hi) ==
    IF lo = hi THEN values[lo]
    ELSE LET mid == (lo + hi) \div 2
         IN RMax(MaxFracRange(values, lo, mid), MaxFracRange(values, mid + 1, hi))

MaxFrac(values) == MaxFracRange(values, 1, Len(values))

\* ZeroStats with a score of 0.
ZeroStatsScoreZero ==
    [sampleCount |-> 0, skipCount |-> 0, totalDistance |-> 0,
     skipDensityPer1000Px |-> Zero, avgSpeed |-> Zero, peakSpeed |-> Zero,
     avgDt |-> Zero, effectiveHz |-> Zero, sessionSeconds |-> Zero, score |-> 0]

ZeroStats ==
    [sampleCount |-> 0, skipCount |-> 0, totalDistance |-> 0,
     skipDensityPer1000Px |-> Zero, avgSpeed |-> Zero, peakSpeed |-> Zero,
     avgDt |-> Zero, effectiveHz |-> Zero, sessionSeconds |-> Zero, score |-> 100]

\* densityPenalty, of the skip density d.
densityPenalty(d) ==
    IF RLeq(d, Frac(1, 4)) THEN Zero
    ELSE IF RLeq(d, Frac(1, 1)) THEN RMulInt(RSub(d, Frac(1, 4)), 10)
    ELSE RAdd(Frac(15, 2), RMulInt(RSub(d, Frac(1, 1)), 16))

\* ClampScore without the clamp: Math.round(rawScore).
RoundOnly(rawScore) == Round(rawScore)

\* Math.max(0, Math.min(100, Math.round(rawScore)))
ClampScore(rawScore) ==
    LET r == Round(rawScore)
        m == IF r > 100 THEN 100 ELSE r
    IN IF m < 0 THEN 0 ELSE m

\* score, of the skip count and the skip density.
ScoreOf(skipCount, density) ==
    LET skipPenalty == Frac(skipCount * 18, 10)
        rawScore == RSub(RSub(Frac(100, 1), skipPenalty), densityPenalty(density))
    IN ClampScore(rawScore)

\* The useMemo that derives stats from samples.
computeStats(log) ==
    IF Len(log) = 0 THEN ZeroStats
    ELSE
      LET speedValues == [i \in DOMAIN log |-> log[i].speed]
          dtValues == FilterPositive([i \in DOMAIN log |-> log[i].dt])
          skipCount == Cardinality({i \in DOMAIN log : log[i].isSkip})
          totalDistance == SumInt([i \in DOMAIN log |-> log[i].distance])
          skipDensityPer1000Px ==
              IF totalDistance > 0 THEN Frac(skipCount * 1000, totalDistance) ELSE Zero
          avgSpeed == RDivInt(SumFrac(speedValues), Len(speedValues))
          peakSpeed == MaxFrac(speedValues)
          avgDt == IF Len(dtValues) = 0 THEN NaN
                   ELSE Frac(SumInt(dtValues), Len(dtValues))
          effectiveHz == IF avgDt.num > 0 THEN Frac(1000 * avgDt.den, avgDt.num) ELSE Zero
          span == log[Len(log)].t - log[1].t
          sessionSeconds == Frac(IF span < 1 THEN 1 ELSE span, 1000)
      IN [sampleCount |-> Len(log), skipCount |-> skipCount,
          totalDistance |-> totalDistance,
          skipDensityPer1000Px |-> skipDensityPer1000Px,
          avgSpeed |-> avgSpeed, peakSpeed |-> peakSpeed, avgDt |-> avgDt,
          effectiveHz |-> effectiveHz, sessionSeconds |-> sessionSeconds,
          score |-> ScoreOf(skipCount, skipDensityPer1000Px)]

\* stats, as the handlers of the last render see it.
stats == computeStats(rendered.samples)

\* ------------------------------------------------------------------ state

Init ==
    /\ runState = "idle"
    /\ countdown = COUNTDOWN_SECONDS
    /\ samples = <<>>
    /\ skipEvents = <<>>
    /\ report = Null
    /\ isReportOpen = FALSE
    /\ lastPoint = Null
    /\ rendered = [runState |-> "idle", countdown |-> COUNTDOWN_SECONDS,
                   samples |-> <<>>, skipEvents |-> <<>>]
    /\ timer = FALSE
    /\ now = 0
    /\ lastEvent = "mount"

\* -------------------------------------------------------------- rendering

\* The countdown effect runs after a render whose [countdown, isCountdown]
\* differ from the previous render's.
EffectDepsChanged(rs, cd) ==
    \/ cd # rendered.countdown
    \/ (rs = "countdown") # (rendered.runState = "countdown")

\* EffectRunState without `setRunState('capturing')`.
EffectRunStateNoCapture(rs, cd) == rs

\* The run state after the countdown effect of a render of (rs, cd).
EffectRunState(rs, cd) ==
    IF EffectDepsChanged(rs, cd) /\ rs = "countdown" /\ cd <= 0 THEN "capturing" ELSE rs

\* Whether a timeout is pending after the countdown effect of a render of
\* (rs, cd): the previous timeout is cleared by the effect's cleanup.
EffectTimer(rs, cd) ==
    IF EffectDepsChanged(rs, cd) THEN rs = "countdown" /\ cd > 0 ELSE timer

\* A render that commits the state (rs, cd, smp, skp), followed by its effects.
Commit(rs, cd, smp, skp) ==
    /\ rendered' = [runState |-> rs, countdown |-> cd, samples |-> smp, skipEvents |-> skp]
    /\ runState' = EffectRunState(rs, cd)
    /\ timer' = EffectTimer(rs, cd)

\* A re-render scheduled by an update made outside a click handler.
Render ==
    /\ rendered # [runState |-> runState, countdown |-> countdown,
                   samples |-> samples, skipEvents |-> skipEvents]
    /\ Commit(runState, countdown, samples, skipEvents)
    /\ lastEvent' = "render"
    /\ UNCHANGED <<countdown, samples, skipEvents, report, isReportOpen, lastPoint, now>>

\* The timeout callback of the countdown effect.
Tick ==
    /\ timer
    /\ countdown' = countdown - 1
    /\ timer' = FALSE
    /\ lastEvent' = "tick"
    /\ UNCHANGED <<runState, samples, skipEvents, report, isReportOpen, lastPoint,
                   rendered, now>>

\* ---------------------------------------------------------- pointer events

\* isCapturing as runState !== 'idle'.
isCapturingNotIdle == rendered.runState # "idle"

\* isCapturing, as the handlers of the last render see it.
isCapturing == rendered.runState = "capturing"

\* handlePointerMove returning at `if (!isCapturing)`.
MoveIgnored ==
    /\ lastEvent' = "move:ignored"
    /\ UNCHANGED <<runState, countdown, samples, skipEvents, report, isReportOpen,
                   lastPoint, rendered, timer, now>>

\* MoveFirst recording the first point as a segment of no length.
MoveFirstRecordsSample(p) ==
    /\ samples' = Append(samples, [x |-> p.x, y |-> p.y, t |-> now, distance |-> 0,
                                   dt |-> 0, speed |-> Zero, isSkip |-> FALSE])
    /\ lastPoint' = [x |-> p.x, y |-> p.y, t |-> now]
    /\ lastEvent' = "move:first"
    /\ UNCHANGED <<runState, countdown, skipEvents, report, isReportOpen,
                   rendered, timer, now>>

\* handlePointerMove returning at `if (!last)`: p becomes the reference point.
MoveFirst(p) ==
    /\ lastPoint' = [x |-> p.x, y |-> p.y, t |-> now]
    /\ lastEvent' = "move:first"
    /\ UNCHANGED <<runState, countdown, samples, skipEvents, report, isReportOpen,
                   rendered, timer, now>>

\* MoveDropped with the reference point advanced before the dt check.
MoveDroppedAdvancesRef(p) ==
    /\ lastPoint' = [x |-> p.x, y |-> p.y, t |-> now]
    /\ lastEvent' = "move:dropped"
    /\ UNCHANGED <<runState, countdown, samples, skipEvents, report, isReportOpen,
                   rendered, timer, now>>

\* handlePointerMove returning at `if (dt <= 0)`.
MoveDropped(p) ==
    /\ lastEvent' = "move:dropped"
    /\ UNCHANGED <<runState, countdown, samples, skipEvents, report, isReportOpen,
                   lastPoint, rendered, timer, now>>

\* MoveSegment leaving the reference point where it was when the segment is a skip.
MoveSegmentKeepsRefOnSkip(p) ==
    LET c == Classify(rendered.samples, distanceBetween(lastPoint, p), now - lastPoint.t)
        sample == MakeSample(c, lastPoint, p, now)
    IN /\ samples' = AppendSample(samples, sample)
       /\ skipEvents' = IF sample.isSkip
                        THEN PrependSkip(skipEvents, MakeSkipEvent(c, sample))
                        ELSE skipEvents
       /\ lastPoint' = IF sample.isSkip THEN lastPoint ELSE [x |-> p.x, y |-> p.y, t |-> now]
       /\ lastEvent' = "move:segment"
       /\ UNCHANGED <<runState, countdown, report, isReportOpen, rendered, timer, now>>

\* handlePointerMove past its early returns: the segment from lastPoint to p
\* is classified against the samples of the last render, appended, and p
\* becomes the reference point.
MoveSegment(p) ==
    LET c == Classify(rendered.samples, distanceBetween(lastPoint, p), now - lastPoint.t)
        sample == MakeSample(c, lastPoint, p, now)
    IN /\ samples' = AppendSample(samples, sample)
       /\ skipEvents' = IF sample.isSkip
                        THEN PrependSkip(skipEvents, MakeSkipEvent(c, sample))
                        ELSE skipEvents
       /\ lastPoint' = [x |-> p.x, y |-> p.y, t |-> now]
       /\ lastEvent' = "move:segment"
       /\ UNCHANGED <<runState, countdown, report, isReportOpen, rendered, timer, now>>

\* handlePointerMove, for a pointer at p.
PointerMove(p) ==
    IF ~isCapturing THEN MoveIgnored
    ELSE IF lastPoint = Null THEN MoveFirst(p)
    ELSE IF now - lastPoint.t <= 0 THEN MoveDropped(p)
    ELSE MoveSegment(p)

\* onPointerLeave discarding the segments recorded so far.
PointerLeaveClearsLogs ==
    /\ lastPoint' = Null
    /\ samples' = <<>>
    /\ skipEvents' = <<>>
    /\ lastEvent' = "leave"
    /\ UNCHANGED <<runState, countdown, report, isReportOpen, rendered, timer, now>>

\* onPointerLeave
PointerLeave ==
    /\ lastPoint' = Null
    /\ lastEvent' = "leave"
    /\ UNCHANGED <<runState, countdown, samples, skipEvents, report, isReportOpen,
                   rendered, timer, now>>

\* ------------------------------------------------------------------ clicks

\* The report handleStartStopClick issues at a stop.
MakeReport ==
    [generatedAt |-> now, stats |-> stats, recentSkips |-> rendered.skipEvents]

\* StopClick without setRunState('idle').
StopClickStaysCapturing ==
    /\ rendered.runState = "capturing"
    /\ lastPoint' = Null
    /\ IF stats.sampleCount > 0
       THEN report' = MakeReport /\ isReportOpen' = TRUE
       ELSE UNCHANGED <<report, isReportOpen>>
    /\ Commit("capturing", countdown, samples, skipEvents)
    /\ lastEvent' = "stop"
    /\ UNCHANGED <<countdown, samples, skipEvents, now>>

\* StopClick without its return: the handler goes on to resetSession() and
\* setRunState('countdown').
StopClickNoReturn ==
    /\ rendered.runState = "capturing"
    /\ countdown' = COUNTDOWN_SECONDS
    /\ samples' = <<>>
    /\ skipEvents' = <<>>
    /\ report' = Null
    /\ isReportOpen' = FALSE
    /\ lastPoint' = Null
    /\ Commit("countdown", COUNTDOWN_SECONDS, <<>>, <<>>)
    /\ lastEvent' = "stop"
    /\ UNCHANGED now

\* handleStartStopClick, runState === 'capturing': Stop.
StopClick ==
    /\ rendered.runState = "capturing"
    /\ lastPoint' = Null
    /\ IF stats.sampleCount > 0
       THEN report' = MakeReport /\ isReportOpen' = TRUE
       ELSE UNCHANGED <<report, isReportOpen>>
    /\ Commit("idle", countdown, samples, skipEvents)
    /\ lastEvent' = "stop"
    /\ UNCHANGED <<countdown, samples, skipEvents, now>>

\* handleStartStopClick, runState === 'countdown': Cancel.
CancelClick ==
    /\ rendered.runState = "countdown"
    /\ countdown' = COUNTDOWN_SECONDS
    /\ lastPoint' = Null
    /\ Commit("idle", COUNTDOWN_SECONDS, samples, skipEvents)
    /\ lastEvent' = "cancel"
    /\ UNCHANGED <<samples, skipEvents, report, isReportOpen, now>>

\* StartClick without resetSession().
StartClickNoReset ==
    /\ rendered.runState = "idle"
    /\ countdown' = COUNTDOWN_SECONDS
    /\ lastPoint' = Null
    /\ Commit("countdown", COUNTDOWN_SECONDS, samples, skipEvents)
    /\ lastEvent' = "start"
    /\ UNCHANGED <<samples, skipEvents, report, isReportOpen, now>>

\* handleStartStopClick, runState === 'idle': resetSession(), then Start.
StartClick ==
    /\ rendered.runState = "idle"
    /\ countdown' = COUNTDOWN_SECONDS
    /\ samples' = <<>>
    /\ skipEvents' = <<>>
    /\ report' = Null
    /\ isReportOpen' = FALSE
    /\ lastPoint' = Null
    /\ Commit("countdown", COUNTDOWN_SECONDS, <<>>, <<>>)
    /\ lastEvent' = "start"
    /\ UNCHANGED now

\* resetSession without setSkipEvents([]).
ResetClickKeepsSkips ==
    /\ countdown' = COUNTDOWN_SECONDS
    /\ samples' = <<>>
    /\ report' = Null
    /\ isReportOpen' = FALSE
    /\ lastPoint' = Null
    /\ Commit("idle", COUNTDOWN_SECONDS, <<>>, skipEvents)
    /\ lastEvent' = "reset"
    /\ UNCHANGED <<skipEvents, now>>

\* resetSession, as the Reset button's handler.
ResetClick ==
    /\ countdown' = COUNTDOWN_SECONDS
    /\ samples' = <<>>
    /\ skipEvents' = <<>>
    /\ report' = Null
    /\ isReportOpen' = FALSE
    /\ lastPoint' = Null
    /\ Commit("idle", COUNTDOWN_SECONDS, <<>>, <<>>)
    /\ lastEvent' = "reset"
    /\ UNCHANGED now

\* The report dialog's Close button and backdrop.
CloseReport ==
    /\ isReportOpen
    /\ report # Null
    /\ isReportOpen' = FALSE
    /\ lastEvent' = "close"
    /\ UNCHANGED <<runState, countdown, samples, skipEvents, report, lastPoint,
                   rendered, timer, now>>

\* Time passes, up to `limit`.
Advance(limit) ==
    /\ now < limit
    /\ now' = now + 1
    /\ UNCHANGED <<runState, countdown, samples, skipEvents, report, isReportOpen,
                   lastPoint, rendered, timer, lastEvent>>

Next ==
    \/ \E p \in Points : PointerMove(p)
    \/ PointerLeave
    \/ StopClick
    \/ CancelClick
    \/ StartClick
    \/ ResetClick
    \/ CloseReport
    \/ Tick
    \/ Render
    \/ Advance(MaxTime)

Spec == Init /\ [][Next]_vars

\* The timeout of the countdown effect fires, and a render React has scheduled
\* takes place, when nothing cancels them.
SpecFair == Init /\ [][Next]_vars /\ WF_vars(Tick) /\ WF_vars(Render)

\* ------------------------------------------------------ long captures

\* A long capture that ended at time `end`: the pointer went back and forth
\* between (0,0) and (3,4) once a millisecond for n segments (n even), then
\* jumped k times between (0,0) and (30,40), every segment rendered before the
\* next.  LongSample(n, k, end, i) is its i-th segment: with n >= 200 and
\* k <= RECENT_SKIPS_LIMIT the window of every jump has a p95 distance of 5,
\* and the jumps, and only they, are flagged.
LongSample(n, k, end, i) ==
    LET jump == i > n
        far == IF jump THEN [x |-> 30, y |-> 40] ELSE [x |-> 3, y |-> 4]
        p == IF (IF jump THEN i - n ELSE i) % 2 = 1 THEN far ELSE [x |-> 0, y |-> 0]
        distance == IF jump THEN 50 ELSE 5
    IN [x |-> p.x, y |-> p.y, t |-> end - (n + k) + i, distance |-> distance, dt |-> 1,
        speed |-> Frac(distance, 1), isSkip |-> jump]

LongLog(n, k, end) == [i \in 1..(n + k) |-> LongSample(n, k, end, i)]

LongSkips(n, k, end) ==
    [j \in 1..k |->
        LET s == LongSample(n, k, end, n + k + 1 - j)
        IN [at |-> s.t, distance |-> s.distance, dt |-> s.dt, speed |-> s.speed,
            reason |-> "distance spike"]]

\* The state of that capture at time `at`, its last segment taken at `end`.
InitAfter(n, k, end, at) ==
    LET log == LongLog(n, k, end)
        skips == LongSkips(n, k, end)
    IN /\ runState = "capturing"
       /\ countdown = 0
       /\ samples = log
       /\ skipEvents = skips
       /\ report = Null
       /\ isReportOpen = FALSE
       /\ lastPoint = [x |-> log[n + k].x, y |-> log[n + k].y, t |-> end]
       /\ rendered = [runState |-> "capturing", countdown |-> 0,
                      samples |-> log, skipEvents |-> skips]
       /\ timer = FALSE
       /\ now = at
       /\ lastEvent = "move:segment"

\* The lengths of the long captures.
LongLengths == {200, 1000}

\* A session from the mount on, or a long capture observed at LongEnd, after
\* which the clock does not advance (LongEnd >= MaxTime).
InitLong ==
    \/ Init
    \/ \E n \in LongLengths, k \in 0..RECENT_SKIPS_LIMIT : InitAfter(n, k, LongEnd, LongEnd)

SpecLong == InitLong /\ [][Next]_vars

\* Captures whose logs are full or nearly so, a millisecond after their last
\* segment: SAMPLE_LIMIT segments or two fewer, the last RECENT_SKIPS_LIMIT
\* of them, or two fewer, skips.
InitCap ==
    \E k \in {RECENT_SKIPS_LIMIT - 2, RECENT_SKIPS_LIMIT}, spare \in {0, 2} :
        InitAfter(SAMPLE_LIMIT - spare - k, k, SAMPLE_LIMIT, SAMPLE_LIMIT + 1)

\* The pointer events and the renders of that millisecond.
NextCap ==
    \/ \E p \in Points : PointerMove(p)
    \/ PointerLeave
    \/ Render

SpecCap == InitCap /\ [][NextCap]_vars

\* ------------------------------------------------------ uniform motion

\* The pointer positions of the scenarios: Points, and one 500 px from the origin.
ScenarioPoints == Points \cup { [x |-> 300, y |-> 400] }

\* A capture of uniform motion that ended at time `end`, one pointer event
\* every 10 ms: h segments of 50 px between (0,0) and (30,40) (h even), then n
\* segments of 5 px between (0,0) and (3,4).  UniformSample(h, n, end, i) is
\* its i-th segment; no segment is flagged, whichever renders took place: a
\* window of such segments has a p95 distance of 5 or 50 (or 0) and a p95 dt
\* of 10 (or 0).
UniformSample(h, n, end, i) ==
    LET head == i <= h
        far == IF head THEN [x |-> 30, y |-> 40] ELSE [x |-> 3, y |-> 4]
        p == IF (IF head THEN i ELSE i - h) % 2 = 1 THEN far ELSE [x |-> 0, y |-> 0]
        distance == IF head THEN 50 ELSE 5
    IN [x |-> p.x, y |-> p.y, t |-> end - 10 * (h + n - i), distance |-> distance,
        dt |-> 10, speed |-> Frac(distance, 10), isSkip |-> FALSE]

UniformLog(h, n, end) == [i \in 1..(h + n) |-> UniformSample(h, n, end, i)]

\* The state of that capture at its last pointer event, every segment rendered.
InitUniform(h, n, end) ==
    LET log == UniformLog(h, n, end)
    IN /\ runState = "capturing"
       /\ countdown = 0
       /\ samples = log
       /\ skipEvents = <<>>
       /\ report = Null
       /\ isReportOpen = FALSE
       /\ lastPoint = [x |-> log[h + n].x, y |-> log[h + n].y, t |-> end]
       /\ rendered = [runState |-> "capturing", countdown |-> 0,
                      samples |-> log, skipEvents |-> <<>>]
       /\ timer = FALSE
       /\ now = end
       /\ lastEvent = "move:segment"

\* Time passes, until the clock reads t.
AdvanceTo(t) ==
    /\ now < t
    /\ now' = t
    /\ UNCHANGED <<runState, countdown, samples, skipEvents, report, isReportOpen,
                   lastPoint, rendered, timer, lastEvent>>

\* The lengths of the head of 50 px segments before the baseline.
HeadLengths == {0, 20}

\* The times, after the baseline's end, at which a pointer event follows it.
BaselineOffsets == {5, 10, 300, 305}

InitBaseline == \E h \in HeadLengths : InitUniform(h, BaselineLen, BaselineEnd)

\* The pointer events, at most MaxExtra of them accepted, and the renders
\* that follow the baseline.
NextBaseline ==
    \/ \E p \in ScenarioPoints :
          /\ IF Len(samples) < MaxExtra THEN TRUE
             ELSE samples[Len(samples) - MaxExtra + 1].t <= BaselineEnd
          /\ PointerMove(p)
    \/ Render
    \/ \E d \in BaselineOffsets : AdvanceTo(BaselineEnd + d)

SpecBaseline == InitBaseline /\ [][NextBaseline]_vars

\* A capture that has just begun: the countdown reached 0 and the capturing
\* state is rendered.
InitStream ==
    /\ runState = "capturing"
    /\ countdown = 0
    /\ samples = <<>>
    /\ skipEvents = <<>>
    /\ report = Null
    /\ isReportOpen = FALSE
    /\ lastPoint = Null
    /\ rendered = [runState |-> "capturing", countdown |-> 0,
                   samples |-> <<>>, skipEvents |-> <<>>]
    /\ timer = FALSE
    /\ now = 0
    /\ lastEvent = "render"

\* The position 5 px from the reference point: the pointer goes back and
\* forth between (0,0) and (3,4).
StreamPoint ==
    IF lastPoint # Null /\ lastPoint.x = 0 THEN [x |-> 3, y |-> 4] ELSE [x |-> 0, y |-> 0]

\* A stream of uniform motion with no gaps: one pointer event every 10 ms,
\* 5 px from the one before, StreamLen segments in all, and the renders.
NextStream ==
    \/ /\ Len(samples) < StreamLen
       /\ IF lastPoint = Null THEN TRUE ELSE now = lastPoint.t + 10
       /\ PointerMove(StreamPoint)
    \/ lastPoint # Null /\ AdvanceTo(lastPoint.t + 10)
    \/ Render

SpecStream == InitStream /\ [][NextStream]_vars

\* ------------------------------------------------------------------ claims

Min(a, b) == IF a < b THEN a ELSE b

IsSkipSample(s) == s.isSkip

\* `new` is `old` with one segment, taken at the current time, appended at the
\* tail, the oldest one (the head) dropped when `old` was full.
IsFifoAppend(old, new) ==
    /\ Len(new) = Min(Len(old) + 1, SAMPLE_LIMIT)
    /\ new[Len(new)].t = now
    /\ SubSeq(new, 1, Len(new) - 1) = (IF Len(old) < SAMPLE_LIMIT THEN old ELSE Tail(old))

\* `new` is `old` with one skip event, taken at the current time, put at the
\* head, the oldest one (the last) dropped when `old` was full.
IsFifoPrepend(old, new) ==
    /\ Len(new) = Min(Len(old) + 1, RECENT_SKIPS_LIMIT)
    /\ new[1].at = now
    /\ Tail(new) = (IF Len(old) < RECENT_SKIPS_LIMIT THEN old
                    ELSE SubSeq(old, 1, RECENT_SKIPS_LIMIT - 1))

\* The skip-event log holds the most recent skips of the segment log, newest first.
SkipLogIsRecentSkips ==
    LET skips == SelectSeq(samples, IsSkipSample)
    IN /\ Len(skipEvents) = Min(Len(skips), RECENT_SKIPS_LIMIT)
       /\ \A k \in 1..Len(skipEvents) :
             /\ skipEvents[k].at = skips[Len(skips) + 1 - k].t
             /\ skipEvents[k].distance = skips[Len(skips) + 1 - k].distance
             /\ skipEvents[k].dt = skips[Len(skips) + 1 - k].dt

\* C1: the segment log never holds more than SAMPLE_LIMIT segments and the
\* skip-event log never more than RECENT_SKIPS_LIMIT events; every change of a
\* log other than its reset adds the newest entry and evicts only the oldest,
\* so that the skip-event log is the most recent skips of the segment log.
C1_BoundedFifoLogs ==
    /\ [](/\ Len(samples) <= SAMPLE_LIMIT
          /\ Len(skipEvents) <= RECENT_SKIPS_LIMIT
          /\ SkipLogIsRecentSkips)
    /\ [][/\ (samples' # samples /\ samples' # <<>>) => IsFifoAppend(samples, samples')
          /\ (skipEvents' # skipEvents /\ skipEvents' # <<>>)
                => IsFifoPrepend(skipEvents, skipEvents')]_vars

\* A segment and a skip event arrived at full logs: the oldest of each is gone.
C1_Witness ==
    /\ Len(samples) = SAMPLE_LIMIT
    /\ samples[SAMPLE_LIMIT].t > SAMPLE_LIMIT
    /\ samples[1].t = 2
    /\ Len(skipEvents) = RECENT_SKIPS_LIMIT
    /\ skipEvents[1].at > SAMPLE_LIMIT
    /\ skipEvents[RECENT_SKIPS_LIMIT].at = SAMPLE_LIMIT - RECENT_SKIPS_LIMIT + 2

\* C2: a pointer move delivered while the run state is idle or countdown
\* changes neither log, the reference point nor the report; a segment or a
\* skip event is only ever added while the run state is capturing.
C2_ClassifyOnlyWhileCapturing ==
    [][/\ (runState # "capturing" /\ \E p \in Points : PointerMove(p))
            => UNCHANGED <<samples, skipEvents, lastPoint, report>>
       /\ (Len(samples') > Len(samples) \/ Len(skipEvents') > Len(skipEvents))
            => runState = "capturing"]_vars

\* A pointer move was delivered during the countdown.
C2_Witness ==
    /\ lastEvent = "move:ignored"
    /\ runState = "countdown"

\* C3: after a stop, a report is present iff the segment log is not empty.
C3_StopReportIffSegments ==
    lastEvent = "stop" => ((report # Null) <=> (Len(samples) > 0))

\* C4: an issued report is never modified: while a report is present, a step
\* either leaves it as it is or discards it (reset, start).
C4_ReportFrozen ==
    [][report # Null => (report' = report \/ report' = Null)]_vars

\* A report was issued, the dialog closed, and pointer moves were delivered.
C4_Witness ==
    /\ report # Null
    /\ report.stats.sampleCount > 0
    /\ ~isReportOpen
    /\ lastEvent = "move:ignored"

\* C5, as claimed: after a stop or a reset, the reference point is absent and
\* both logs are empty.
C5_StopOrResetClearsLogs ==
    lastEvent \in {"stop", "reset"} =>
        lastPoint = Null /\ samples = <<>> /\ skipEvents = <<>>

\* C5, amended: after a stop or a reset the reference point is absent and the
\* handlers see the run state idle; a reset empties both logs; a stop leaves
\* both logs as they were.
C5_StopKeepsLogsResetClears ==
    /\ [](/\ lastEvent \in {"stop", "reset"} =>
                lastPoint = Null /\ runState = "idle" /\ ~isCapturing
          /\ lastEvent = "reset" => samples = <<>> /\ skipEvents = <<>>)
    /\ [][StopClick => UNCHANGED <<samples, skipEvents>>]_vars

\* A session was stopped with segments and skip events in its logs.
C5_Witness ==
    /\ lastEvent = "stop"
    /\ Len(samples) > 0
    /\ Len(skipEvents) > 0

RunStateEdges ==
    { <<"idle", "countdown">>, <<"countdown", "capturing">>,
      <<"countdown", "idle">>, <<"capturing", "idle">> }

\* C6: the run state changes only along idle -> countdown, countdown ->
\* capturing (with the countdown at 0), countdown -> idle and capturing ->
\* idle; the run state the handlers see changes along the same edges, by a
\* start, by the countdown reaching 0, by a cancel or a reset, and by a stop or
\* a reset.
C6_RunStateTransitions ==
    [][/\ runState' # runState =>
            /\ <<runState, runState'>> \in RunStateEdges
            /\ runState' = "capturing" => countdown = 0
       /\ rendered'.runState # rendered.runState =>
            \/ /\ rendered.runState = "idle" /\ rendered'.runState = "countdown"
               /\ lastEvent' = "start"
            \/ /\ rendered.runState = "countdown" /\ rendered'.runState = "capturing"
               /\ lastEvent' = "render" /\ countdown = 0
            \/ /\ rendered.runState = "countdown" /\ rendered'.runState = "idle"
               /\ lastEvent' \in {"cancel", "reset"}
            \/ /\ rendered.runState = "capturing" /\ rendered'.runState = "idle"
               /\ lastEvent' \in {"stop", "reset"}]_vars

\* A session went through countdown and capture and was stopped.
C6_Witness ==
    /\ lastEvent = "stop"
    /\ runState = "idle"
    /\ countdown = 0

\* C7: a pointer move handled with no reference point recorded appends no
\* segment and no skip event; while capturing it makes the point the
\* reference point.
C7_FirstPointNoSegment ==
    [][\A p \in Points :
          (lastPoint = Null /\ PointerMove(p)) =>
              /\ UNCHANGED <<samples, skipEvents>>
              /\ isCapturing => lastPoint' = [x |-> p.x, y |-> p.y, t |-> now]]_vars

\* The first point after a pointer-leave, with segments already in the log.
C7_Witness ==
    /\ lastEvent = "move:first"
    /\ Len(samples) > 0
    /\ lastPoint # Null

\* C8: every segment of the log has dt > 0; a pointer move whose timestamp
\* is not after the reference point's changes neither log, the reference
\* point, the run state nor the report.
C8_NonPositiveDtDropped ==
    /\ [](\A i \in DOMAIN samples : samples[i].dt > 0)
    /\ [][\A p \in Points :
             (isCapturing /\ lastPoint # Null /\ now <= lastPoint.t /\ PointerMove(p)) =>
                 UNCHANGED <<samples, skipEvents, lastPoint, runState, report>>]_vars

\* A pointer move was dropped, away from the reference point.
C8_Witness ==
    /\ lastEvent = "move:dropped"
    /\ lastPoint # Null
    /\ lastPoint.t = now
    /\ Len(samples) > 0

\* C9: the score is a whole number from 0 to 100: the score the handlers
\* see, the score of the segment log as it stands, and the score of a report;
\* in sessions from the mount on and in long captures.
C9_ScoreInRange ==
    /\ stats.score \in 0..100
    /\ computeStats(samples).score \in 0..100
    /\ report # Null => report.stats.score \in 0..100

\* A report issued on a capture of 200 segments and 2 skips: the raw score,
\* 100 - 3.6 - 20.59..., is rounded to 76.
C9_Witness ==
    /\ report # Null
    /\ report.stats.score = 76
    /\ stats.score = 76

\* C10: with an empty segment log the stats have score 100 and every other
\* statistic 0.
C10_EmptyLogDefaults ==
    samples = <<>> =>
        stats = [sampleCount |-> 0, skipCount |-> 0, totalDistance |-> 0,
                 skipDensityPer1000Px |-> [num |-> 0, den |-> 1],
                 avgSpeed |-> [num |-> 0, den |-> 1],
                 peakSpeed |-> [num |-> 0, den |-> 1],
                 avgDt |-> [num |-> 0, den |-> 1],
                 effectiveHz |-> [num |-> 0, den |-> 1],
                 sessionSeconds |-> [num |-> 0, den |-> 1],
                 score |-> 100]

\* Capturing, a first point recorded, no segment yet.
C10_Witness ==
    /\ runState = "capturing"
    /\ lastPoint # Null
    /\ samples = <<>>
    /\ stats.score = 100

\* A step that appends a segment to the log, and the segment it appends.
SegmentStep == lastEvent' = "move:segment" /\ samples' # samples
NewSample == samples'[Len(samples')]

\* The trailing window of the log the handler of the step classifies against.
SeenWindow == SliceLast(rendered.samples, WINDOW)

NoPositiveDistance(window) == \A i \in DOMAIN window : window[i].distance <= 0
NoPositiveDt(window) == \A i \in DOMAIN window : window[i].dt <= 0

\* C11, as claimed: a segment whose trailing window holds no segment of
\* positive distance, or none of positive dt, is not flagged as a skip (the
\* window being that of the log as it stands).
C11_NoHistoryNoSkip ==
    [][(/\ SegmentStep
        /\ rendered.samples = samples
        /\ NoPositiveDistance(SeenWindow) \/ NoPositiveDt(SeenWindow))
            => ~NewSample.isSkip]_vars

\* C11, amended: a segment whose trailing window holds no segment of positive
\* dt (an empty window, every logged dt being positive) is not flagged; one
\* whose window holds no segment of positive distance is never flagged by the
\* distance-spike rule, but the gap-jump rule can still flag it, as
\* "time gap + jump", when it is longer than 12 px.
C11_EmptyWindowNoSkip ==
    [][SegmentStep =>
          /\ NoPositiveDt(SeenWindow) => (SeenWindow = <<>> /\ ~NewSample.isSkip)
          /\ (NoPositiveDistance(SeenWindow) /\ NewSample.isSkip) =>
                /\ skipEvents'[1].reason = "time gap + jump"
                /\ NewSample.distance > 12
                /\ ~NoPositiveDt(SeenWindow)]_vars

\* After a segment of no length, rendered, a jump after a gap was flagged.
C11_Witness ==
    /\ lastEvent = "move:segment"
    /\ Len(samples) = 2
    /\ samples[1].distance = 0
    /\ samples[2].isSkip
    /\ skipEvents[1].reason = "time gap + jump"

\* The value at sorted index floor(0.95 * (n - 1)) of n values, 0 of none.
RankValue(values) ==
    IF values = <<>> THEN 0
    ELSE LET index == (95 * (Len(values) - 1)) \div 100
         IN CHOOSE v \in Range(values) :
                /\ Cardinality({i \in DOMAIN values : values[i] < v}) <= index
                /\ index < Cardinality({i \in DOMAIN values : values[i] <= v})

PositiveDistances(window) ==
    SelectSeq([i \in DOMAIN window |-> window[i].distance], IsPositive)
PositiveDts(window) ==
    SelectSeq([i \in DOMAIN window |-> window[i].dt], IsPositive)

\* distance > 2.2 * p and dt < 25, with p > 0.
SpikeRule(p, distance, dt) == p > 0 /\ 5 * distance > 11 * p /\ dt < 25

\* dt > 1.8 * q and distance > max(12, 1.1 * p), with q > 0.
GapRule(p, q, distance, dt) ==
    q > 0 /\ 5 * dt > 9 * q /\ distance > 12 /\ 10 * distance > 11 * p

\* C12: every segment appended is flagged iff the distance-spike rule or the
\* gap-jump rule holds of it, the p95 values being those at sorted index
\* floor(0.95 * (n - 1)) of the positive distances and of the positive dt
\* values of the trailing window of the log the handler sees; a flagged
\* segment's event has reason "distance spike" when the distance rule holds
\* and "time gap + jump" when only the gap rule does.
C12_SkipRules ==
    [][SegmentStep =>
          LET p == RankValue(PositiveDistances(SeenWindow))
              q == RankValue(PositiveDts(SeenWindow))
              spike == SpikeRule(p, NewSample.distance, NewSample.dt)
              gap == GapRule(p, q, NewSample.distance, NewSample.dt)
          IN /\ NewSample.isSkip <=> (spike \/ gap)
             /\ NewSample.isSkip =>
                   /\ skipEvents'[1].at = NewSample.t
                   /\ skipEvents'[1].reason =
                          (IF spike THEN "distance spike" ELSE "time gap + jump")]_vars

\* After a head of 50 px segments and the baseline, a distance spike and then
\* a jump after a gap were both flagged.
C12_Witness ==
    /\ Len(samples) = 20 + BaselineLen + 2
    /\ Len(skipEvents) = 2
    /\ skipEvents[2].reason = "distance spike"
    /\ skipEvents[1].reason = "time gap + jump"

\* The log holds no skip and ends with 260 segments of 5 px and 10 ms.
UniformBaseline(log) ==
    /\ Len(log) >= 260
    /\ \A i \in (Len(log) - 259)..Len(log) : log[i].distance = 5 /\ log[i].dt = 10
    /\ \A i \in DOMAIN log : ~log[i].isSkip

\* C13: after a baseline of 260 uniform segments (5 px, 10 ms), rendered, a
\* segment of 500 px and 5 ms is flagged, its event has reason
\* "distance spike", and the stats of the resulting log have skipCount = 1.
C13_DistanceSpikeAfterBaseline ==
    [][(/\ UniformBaseline(samples)
        /\ UniformBaseline(rendered.samples)
        /\ SegmentStep
        /\ NewSample.distance = 500
        /\ NewSample.dt = 5)
            => /\ NewSample.isSkip
               /\ skipEvents' = <<[at |-> NewSample.t, distance |-> 500, dt |-> 5,
                                   speed |-> [num |-> 100, den |-> 1],
                                   reason |-> "distance spike"]>>
               /\ computeStats(samples').skipCount = 1]_vars

\* The spike followed the baseline and was rendered: the stats count one skip.
C13_Witness ==
    /\ Len(samples) = BaselineLen + 1
    /\ samples[Len(samples)].distance = 500
    /\ samples[Len(samples)].dt = 5
    /\ samples[Len(samples)].isSkip
    /\ skipEvents[1].reason = "distance spike"
    /\ stats.skipCount = 1

\* C14: after a baseline of 260 uniform segments (5 px, 10 ms), rendered, a
\* segment of 50 px and 300 ms is flagged and its event has reason
\* "time gap + jump": the gap rule fired and the distance rule did not.
C14_GapJumpAfterBaseline ==
    [][(/\ UniformBaseline(samples)
        /\ UniformBaseline(rendered.samples)
        /\ SegmentStep
        /\ NewSample.distance = 50
        /\ NewSample.dt = 300)
            => /\ NewSample.isSkip
               /\ skipEvents' = <<[at |-> NewSample.t, distance |-> 50, dt |-> 300,
                                   speed |-> [num |-> 1, den |-> 6],
                                   reason |-> "time gap + jump"]>>]_vars

\* The jump after the gap followed the baseline.
C14_Witness ==
    /\ Len(samples) = BaselineLen + 1
    /\ samples[Len(samples)].distance = 50
    /\ samples[Len(samples)].dt = 300
    /\ samples[Len(samples)].isSkip
    /\ skipEvents[1].reason = "time gap + jump"

\* C15: along a stream of uniform motion with no gaps (segments of 5 px and
\* 10 ms), whatever renders take place, no segment is flagged, the
\* skip-event log stays empty, and the score is 100 after every segment: that
\* of the log as it stands and that the handlers see.
C15_UniformStreamClean ==
    /\ \A i \in DOMAIN samples :
          samples[i].distance = 5 /\ samples[i].dt = 10 /\ ~samples[i].isSkip
    /\ skipEvents = <<>>
    /\ computeStats(samples).skipCount = 0
    /\ computeStats(samples).score = 100
    /\ stats.score = 100

\* The stream reached its 100th segment, rendered.
C15_Witness ==
    /\ Len(samples) = 100
    /\ stats.sampleCount = 100
    /\ stats.totalDistance = 500
    /\ stats.score = 100
    /\ skipEvents = <<>>

\* C16: every segment appended is classified against the trailing window of
\* the segment log as it stands when its pointer event is handled: its flag
\* is the outcome of the outlier rules on that log.
C16_ClassifiedAgainstCurrentLog ==
    [][SegmentStep =>
          LET c == Classify(samples, NewSample.distance, NewSample.dt)
          IN NewSample.isSkip <=> (c.distanceOutlier \/ c.gapOutlier)]_vars

\* C17: a report is issued only by a stop, and the report a stop issues holds
\* the stats of the full segment log and the skip-event log as they stand at
\* the stop.
C17_ReportIsStopSnapshot ==
    [][(report' # report /\ report' # Null) =>
          /\ lastEvent' = "stop"
          /\ report'.stats = computeStats(samples)
          /\ report'.recentSkips = skipEvents]_vars

\* C18: a pointer move accepted while capturing (a reference point recorded,
\* at an earlier time) appends exactly one segment, from the reference point
\* to the new point, at the tail of the segment log and makes the new point
\* the reference point, skip or not; if the segment is a skip, an event with
\* its timestamp, distance, dt and speed is put at the head of the skip-event
\* log; if not, the skip-event log is unchanged.
C18_AcceptedSampleAppends ==
    [][\A p \in Points :
          (isCapturing /\ lastPoint # Null /\ now > lastPoint.t /\ PointerMove(p)) =>
              LET seg == samples'[Len(samples')]
                  dx == p.x - lastPoint.x
                  dy == p.y - lastPoint.y
              IN /\ IsFifoAppend(samples, samples')
                 /\ seg.x = p.x /\ seg.y = p.y /\ seg.t = now
                 /\ seg.dt = now - lastPoint.t
                 /\ seg.distance >= 0 /\ seg.distance * seg.distance = dx * dx + dy * dy
                 /\ seg.speed.num * seg.dt = seg.distance * seg.speed.den
                 /\ lastPoint' = [x |-> p.x, y |-> p.y, t |-> now]
                 /\ IF seg.isSkip
                    THEN /\ IsFifoPrepend(skipEvents, skipEvents')
                         /\ skipEvents'[1].at = seg.t
                         /\ skipEvents'[1].distance = seg.distance
                         /\ skipEvents'[1].dt = seg.dt
                         /\ skipEvents'[1].speed = seg.speed
                    ELSE skipEvents' = skipEvents]_vars

\* A segment that is not a skip and then one that is were appended; the
\* second one's point is the reference point and its event heads the log.
C18_Witness ==
    /\ lastEvent = "move:segment"
    /\ Len(samples) = 2
    /\ ~samples[1].isSkip
    /\ samples[2].isSkip
    /\ lastPoint = [x |-> samples[2].x, y |-> samples[2].y, t |-> samples[2].t]
    /\ Len(skipEvents) = 1
    /\ skipEvents[1].at = samples[2].t

\* C19: a pointer-leave, in any run state, clears the reference point and
\* changes nothing else: the segment log, the skip-event log, the stats (of
\* the log and as rendered), the report, the run state and the countdown are
\* as they were.
C19_PointerLeaveFrame ==
    [][(lastEvent' = "leave" /\ now' = now) =>
          /\ lastPoint' = Null
          /\ UNCHANGED <<samples, skipEvents, report, isReportOpen, runState,
                         countdown, timer, rendered>>
          /\ computeStats(rendered'.samples) = stats
          /\ computeStats(samples') = computeStats(samples)]_vars

\* The pointer left the stage during a capture with segments and a skip in
\* its logs.
C19_Witness ==
    /\ lastEvent = "leave"
    /\ runState = "capturing"
    /\ lastPoint = Null
    /\ Len(samples) > 1
    /\ Len(skipEvents) > 0

\* C20: the countdown is within 0..COUNTDOWN_SECONDS; the run state becomes
\* countdown with the countdown at COUNTDOWN_SECONDS; the countdown changes
\* only by being set back to COUNTDOWN_SECONDS or by a timer tick, in the
\* countdown state, that takes exactly 1 from it; capture begins with the
\* countdown at 0; and, the timer and the renders being fair, a countdown
\* leads to capturing unless a cancel or a reset occurs.
C20_CountdownReachesCapturing ==
    /\ [](countdown \in 0..COUNTDOWN_SECONDS)
    /\ [][/\ (runState' = "countdown" /\ runState # "countdown")
                => countdown' = COUNTDOWN_SECONDS
          /\ countdown' # countdown =>
                \/ countdown' = COUNTDOWN_SECONDS
                \/ /\ lastEvent' = "tick"
                   /\ runState = "countdown"
                   /\ countdown' = countdown - 1
          /\ (timer /\ lastEvent' = "tick" /\ ~timer') => countdown' = countdown - 1
          /\ (runState' = "capturing" /\ runState # "capturing") => countdown = 0]_vars
    /\ (runState = "countdown") ~> (runState = "capturing" \/ lastEvent \in {"cancel", "reset"})

\* The countdown ran down to 0 and the capture has just begun.
C20_Witness ==
    /\ runState = "capturing"
    /\ rendered.runState = "countdown"
    /\ countdown = 0
    /\ lastEvent = "render"

\* C21: in every reachable state, while the run state is countdown the
\* segment log and the skip-event log are empty and no report is present; a
\* report is present only while the run state is idle; a reference point is
\* present only while the run state is capturing.  The same holds of the run
\* state the handlers see.
C21_CleanSession ==
    /\ runState = "countdown" => (samples = <<>> /\ skipEvents = <<>> /\ report = Null)
    /\ report # Null => runState = "idle"
    /\ lastPoint # Null => runState = "capturing"
    /\ rendered.runState = "countdown" =>
          (samples = <<>> /\ skipEvents = <<>> /\ report = Null)
    /\ report # Null => rendered.runState = "idle"
    /\ lastPoint # Null => rendered.runState = "capturing"

\* A countdown under way, started after time had passed, the first tick taken.
C21_Witness ==
    /\ runState = "countdown"
    /\ lastEvent = "tick"
    /\ countdown = COUNTDOWN_SECONDS - 1
    /\ now > 1
    /\ samples = <<>>
    /\ report = Null
    /\ lastPoint = Null

====
